---- MODULE Spec2Model ----
(***************************************************************************)
(* Model of lib/awsflow/workflow_definition.py.                            *)
(*                                                                         *)
(* _WorkflowDefinitionMeta.__init__ runs once per class definition and     *)
(* attaches the signal catalog (_workflow_signals) and the entry-point     *)
(* catalog (_workflow_types) to classes.  Catalogs are Python dicts, that  *)
(* is heap objects with an identity: a class attribute holds a reference,  *)
(* and attribute lookup on a class walks up its bases.                     *)
(* WorkflowDefinition instances hold the execution identity, the state     *)
(* string and the result future.                                           *)
(*                                                                         *)
(* The module is Python 2 code: `__metaclass__` in the class body makes    *)
(* _WorkflowDefinitionMeta the metaclass of WorkflowDefinition and of      *)
(* every subclass.  Class statements name a single base class.             *)
(***************************************************************************)
EXTENDS Integers, Sequences, FiniteSets, TLC

\* ------------------------------------------------------------------ bounds
\* Number of class definitions in a run, the module's own
\* `class WorkflowDefinition(object)` included.
MaxClasses == 3
\* Largest number of members in one class body.
MaxBody == 2
\* Number of WorkflowDefinition instances.
NumInstances == 2

\* ------------------------------------------------- members of class bodies
\* A member is the value bound to one name of a class body (dct).  Every
\* `def` of a class body creates a new object, so a member occurs in one
\* class body only.  The classifier's output is read through val.func and
\* func.swf_options.
None == "None"

Members == 1..6

\* hasattr(val, 'func')
HasFunc(m) == m \in 1..5

\* hasattr(func, 'swf_options'); member 6 wraps nothing, so has none
HasSwfOptions(m) == m \in 1..5

\* func.swf_options['signal_type'].name, None when the key is missing
SignalTypeName(m) ==
    CASE m = 1 -> "ping"
      [] m = 2 -> "ping"
      [] m = 5 -> "pong"
      [] OTHER -> None

\* func.swf_options['workflow_type'], None when the key is missing
WorkflowTypeOf(m) ==
    CASE m = 3 -> "d1"
      [] m = 4 -> "d2"
      [] m = 5 -> "d3"
      [] OTHER -> None

\* func.__name__
FuncName(m) ==
    CASE m = 1 -> "on_ping"
      [] m = 2 -> "on_ping2"
      [] m = 3 -> "run"
      [] m = 4 -> "start"
      [] m = 5 -> "both"
      [] OTHER -> "helper"

Descriptors == {"d1", "d2", "d3"}
SignalNames == {"ping", "pong"}

BaseName == "WorkflowDefinition"
ClassNames == {BaseName, "A", "B"}
\* display name a descriptor carries before any class rebinds it
Unbound == "unbound"

\* ------------------------------------------------------------------- state
VARIABLES
    classes,            \* sequence of defined classes: [name, base, dct]
    _workflow_signals,  \* class -> reference held in its own __dict__, or NoAttr
    _workflow_types,    \* class -> reference held in its own __dict__, or NoAttr
    signalDicts,        \* heap: reference -> dict (signal name -> handler)
    typeDicts,          \* heap: reference -> dict (descriptor -> method name)
    displayName,        \* descriptor -> display name set by _reset_name
    resets,             \* descriptors rebound by the latest class definition
    local_signals,      \* the local `signals` dict of the latest class definition
    local_workflow_types, \* its local `_workflow_types` list
    instances,          \* instance -> its attribute dict (empty before __init__)
    lastOp              \* the latest instance operation, with argument and result

vars == <<classes, _workflow_signals, _workflow_types, signalDicts, typeDicts,
          displayName, resets, local_signals, local_workflow_types,
          instances, lastOp>>

registryVars == <<classes, _workflow_signals, _workflow_types, signalDicts,
                  typeDicts, displayName, resets, local_signals,
                  local_workflow_types>>
instanceVars == <<instances, lastOp>>

\* ------------------------------------------------------------ Python dicts
EmptyDict == [k \in {} |-> None]

\* d[k] = v
DictSet(d, k, v) == [x \in DOMAIN d \cup {k} |-> IF x = k THEN v ELSE d[x]]

\* d.update(e): e's entries win
DictUpdate(d, e) ==
    [x \in DOMAIN d \cup DOMAIN e |-> IF x \in DOMAIN e THEN e[x] ELSE d[x]]

\* ------------------------------------------------------------ class lookup
\* base of the module's root class: `object`
Object == 0
\* the class has no such attribute in its own __dict__
NoAttr == 0

ClassIds == 1..Len(classes)

\* hasattr/getattr on a class: own __dict__ first, then the bases in turn
RECURSIVE LookupIn(_, _, _)
LookupIn(attr, cls, c) ==
    IF c = Object THEN NoAttr
    ELSE IF attr[c] # NoAttr THEN attr[c]
    ELSE LookupIn(attr, cls, cls[c].base)

Lookup(attr, c) == LookupIn(attr, classes, c)

\* the dict reached through C._workflow_signals / C._workflow_types
\* (the empty dict stands for "no such attribute")
SignalCatalog(c) ==
    IF Lookup(_workflow_signals, c) = NoAttr THEN EmptyDict
    ELSE signalDicts[Lookup(_workflow_signals, c)]

TypeCatalog(c) ==
    IF Lookup(_workflow_types, c) = NoAttr THEN EmptyDict
    ELSE typeDicts[Lookup(_workflow_types, c)]

\* ------------------------------------------- _WorkflowDefinitionMeta.__init__
\* faulty variant of ScanSignals: a name already in the dict is not overwritten
RECURSIVE ScanSignalsFirstWins(_)
ScanSignalsFirstWins(dct) ==
    IF dct = <<>> THEN EmptyDict
    ELSE LET rest == ScanSignalsFirstWins(SubSeq(dct, 1, Len(dct) - 1))
             val  == dct[Len(dct)]
         IN  IF HasFunc(val) /\ HasSwfOptions(val) /\ SignalTypeName(val) # None
                /\ SignalTypeName(val) \notin DOMAIN rest
             THEN DictSet(rest, SignalTypeName(val), val)
             ELSE rest
\* lines 23-29: the local `signals` dict after scanning dct in iteration order
RECURSIVE ScanSignals(_)
ScanSignals(dct) ==
    IF dct = <<>> THEN EmptyDict
    ELSE LET rest == ScanSignals(SubSeq(dct, 1, Len(dct) - 1))
             val  == dct[Len(dct)]
         IN  IF HasFunc(val) /\ HasSwfOptions(val) /\ SignalTypeName(val) # None
             THEN DictSet(rest, SignalTypeName(val), val)
             ELSE rest

\* faulty variant of ScanWorkflowTypes: line 30 is an `if`, not an `elif`
RECURSIVE ScanWorkflowTypesIf(_)
ScanWorkflowTypesIf(dct) ==
    IF dct = <<>> THEN <<>>
    ELSE LET rest == ScanWorkflowTypesIf(SubSeq(dct, 1, Len(dct) - 1))
             val  == dct[Len(dct)]
         IN  IF HasFunc(val) /\ HasSwfOptions(val) /\ WorkflowTypeOf(val) # None
             THEN Append(rest, <<WorkflowTypeOf(val), FuncName(val)>>)
             ELSE rest
\* lines 23-32: the local `_workflow_types` list of (descriptor, method name)
RECURSIVE ScanWorkflowTypes(_)
ScanWorkflowTypes(dct) ==
    IF dct = <<>> THEN <<>>
    ELSE LET rest == ScanWorkflowTypes(SubSeq(dct, 1, Len(dct) - 1))
             val  == dct[Len(dct)]
         IN  IF HasFunc(val) /\ HasSwfOptions(val) /\ SignalTypeName(val) = None
                /\ WorkflowTypeOf(val) # None
             THEN Append(rest, <<WorkflowTypeOf(val), FuncName(val)>>)
             ELSE rest

\* lines 45-48: the local `workflow_types` dict built from the list
RECURSIVE BuildWorkflowTypes(_)
BuildWorkflowTypes(lst) ==
    IF lst = <<>> THEN EmptyDict
    ELSE DictSet(BuildWorkflowTypes(SubSeq(lst, 1, Len(lst) - 1)),
                 lst[Len(lst)][1], lst[Len(lst)][2])

\* faulty variant of ResetTargets: the loop of lines 46-47 rebinds nothing
ResetTargetsNone(lst) == {}
\* line 47: the descriptors whose _reset_name is called
ResetTargets(lst) == {lst[i][1] : i \in 1..Len(lst)}

\* workflow_type._reset_name(name): the display name becomes name
ResetName(names, targets, name) ==
    [d \in DOMAIN names |-> IF d \in targets THEN name ELSE names[d]]

\* faulty variant of IsBaseName: the name is compared with a misspelt literal
IsBaseNameMisspelt(name) == name = "Workflowdefinition"
\* faulty variant of IsBaseName: the early return of line 38 is never taken
IsBaseNameNever(name) == FALSE
\* line 37: cls.__name__ == 'WorkflowDefinition'
IsBaseName(name) == name = BaseName

\* faulty variant of NewDictRef: one dict object serves every construction
NewDictRefShared(c) == 1
\* lines 21, 41, 45, 51: the dict attached by setattr is the fresh local dict
\* of this construction; it is identified by the class it was created for
NewDictRef(c) == c

\* lines 40-43 / 50-53 on the attribute table
AttachAttr(attr, cls, c) ==
    IF LookupIn(attr, cls, c) = NoAttr
    THEN [x \in 1..c |-> IF x = c THEN NewDictRef(c) ELSE attr[x]]
    ELSE [x \in 1..c |-> IF x = c THEN NoAttr ELSE attr[x]]

\* lines 40-43 / 50-53 on the heap
AttachDict(heap, attr, cls, c, local) ==
    IF LookupIn(attr, cls, c) = NoAttr
    THEN DictSet(heap, NewDictRef(c), local)
    ELSE LET r == LookupIn(attr, cls, c)
         IN  [heap EXCEPT ![r] = DictUpdate(heap[r], local)]

\* attribute table right after type.__init__ (line 34): no own attribute yet
Extend(attr, c) == [x \in 1..c |-> IF x = c THEN NoAttr ELSE attr[x]]

Declared == UNION {{classes[c].dct[i] : i \in 1..Len(classes[c].dct)} : c \in ClassIds}

\* two members whose registrations write the same key of the local signals dict
Collide(m, n) ==
    /\ HasFunc(m) /\ HasSwfOptions(m) /\ HasFunc(n) /\ HasSwfOptions(n)
    /\ SignalTypeName(m) # None
    /\ SignalTypeName(m) = SignalTypeName(n)

\* dct in the order six.itervalues yields it (line 23).  The order of a dict
\* is arbitrary, and only the relative order of colliding members changes the
\* outcome of the scan: those occur in both orders, the others in ascending
\* order.  Members are numbered in the order the class body declares them.
IsBody(dct) ==
    /\ Len(dct) <= MaxBody
    /\ \A i, j \in 1..Len(dct) :
          i < j => /\ dct[i] # dct[j]
                   /\ (dct[i] < dct[j] \/ Collide(dct[i], dct[j]))
    /\ \A i \in 1..Len(dct) : dct[i] \notin Declared

Bodies == {dct \in UNION {[1..n -> Members] : n \in 0..MaxBody} : IsBody(dct)}

\* the members of a class and of its bases, most-derived last
RECURSIVE MembersWithInherited(_, _)
MembersWithInherited(cls, c) ==
    IF c = Object THEN <<>>
    ELSE MembersWithInherited(cls, cls[c].base) \o cls[c].dct

\* faulty variant of ScannedMembers: the scan walks the inherited members too
ScannedMembersWithInherited(cls, c) == MembersWithInherited(cls, c)
\* line 23: the scan iterates over the values of dct, the class's own body
ScannedMembers(cls, c) == cls[c].dct

\* One class statement: the whole of _WorkflowDefinitionMeta.__init__.
DefineClass(name, base, dct) ==
    LET c     == Len(classes) + 1
        cls   == Append(classes, [name |-> name, base |-> base, dct |-> dct])
        sigs  == ScanSignals(ScannedMembers(cls, c))
        wts   == ScanWorkflowTypes(ScannedMembers(cls, c))
    IN  /\ Len(classes) < MaxClasses
        /\ classes' = cls
        /\ local_signals' = sigs
        /\ local_workflow_types' = wts
        /\ IF IsBaseName(name)
           THEN /\ _workflow_signals' = Extend(_workflow_signals, c)
                /\ _workflow_types' = Extend(_workflow_types, c)
                /\ resets' = {}
                /\ UNCHANGED <<signalDicts, typeDicts, displayName>>
           ELSE /\ _workflow_signals' = AttachAttr(Extend(_workflow_signals, c), cls, c)
                /\ signalDicts' = AttachDict(signalDicts, Extend(_workflow_signals, c), cls, c, sigs)
                /\ displayName' = ResetName(displayName, ResetTargets(wts), name)
                /\ resets' = ResetTargets(wts)
                /\ _workflow_types' = AttachAttr(Extend(_workflow_types, c), cls, c)
                /\ typeDicts' = AttachDict(typeDicts, Extend(_workflow_types, c), cls, c,
                                           BuildWorkflowTypes(wts))
        /\ UNCHANGED instanceVars

\* The module itself: `class WorkflowDefinition(object)` (lines 62-178).  Its
\* body holds __init__ and properties only, none of which has a `func`.
DefineWorkflowDefinition ==
    /\ classes = <<>>
    /\ DefineClass(BaseName, Object, <<>>)

\* A class statement of a user of the library: a subclass of an existing
\* class of the hierarchy.
\* The names a class statement may carry.  The code only compares a name
\* with 'WorkflowDefinition' and hands it to _reset_name, so the other names
\* are interchangeable: "B" is used once some class is called "A".
NamesInUse == {classes[c].name : c \in ClassIds}
NewClassNames == {n \in ClassNames : n = "B" => "A" \in NamesInUse}

DefineSubclass ==
    /\ classes # <<>>
    /\ Len(classes) < MaxClasses
    /\ \E dct \in Bodies, name \in NewClassNames, base \in ClassIds :
          DefineClass(name, base, dct)

\* ------------------------------------------------ WorkflowDefinition instances
\* An instance is its attribute dict.  The two properties store under the
\* name-mangled private names; _workflow_result is a plain attribute.
ATTR_EXECUTION == "__workflow_execution"
ATTR_STATE == "__workflow_state"
ATTR_RESULT == "_workflow_result"

Instances == 1..NumInstances
\* WorkflowExecution(workflow_id, run_id) pairs handed to the constructor
Executions == {<<"wf-1", "r-1">>, <<"wf-2", "r-2">>}
States == {"", "Workflow started", "Workflow completing"}
Futures == {"f1", "f2"}

\* line 131: the workflow_execution getter
workflow_execution(obj) == obj[ATTR_EXECUTION]

\* faulty variant of the setter: it also clears the result handle
set_workflow_execution_reinit(obj, we) ==
    DictSet(DictSet(obj, ATTR_EXECUTION, we), ATTR_RESULT, None)
\* faulty variant of the setter: the pair is stored with its fields swapped
set_workflow_execution_swapped(obj, we) ==
    DictSet(obj, ATTR_EXECUTION, <<we[2], we[1]>>)
\* lines 133-135: the workflow_execution setter
set_workflow_execution(obj, we) == DictSet(obj, ATTR_EXECUTION, we)

\* line 160: the workflow_state getter
workflow_state(obj) == obj[ATTR_STATE]

\* faulty variant of the setter: only the first assignment is stored
set_workflow_state_once(obj, state) ==
    IF ATTR_STATE \in DOMAIN obj THEN obj ELSE DictSet(obj, ATTR_STATE, state)
\* lines 162-164: the workflow_state setter
set_workflow_state(obj, state) == DictSet(obj, ATTR_STATE, state)

\* line 178: the workflow_result getter
workflow_result(obj) == obj[ATTR_RESULT]

\* faulty variant of __init__: the state starts as None
__init__state_None(obj, we) ==
    DictSet(set_workflow_state(set_workflow_execution(obj, we), None),
            ATTR_RESULT, None)
\* lines 102-105: WorkflowDefinition.__init__
__init__(obj, we) ==
    DictSet(set_workflow_state(set_workflow_execution(obj, we), ""),
            ATTR_RESULT, None)

Constructed(i) == instances[i] # EmptyDict

Op(op, i, arg, ret) == [op |-> op, inst |-> i, arg |-> arg, ret |-> ret]
NoOp == Op("none", 0, None, None)

\* instance = Workflow(workflow_execution)
Construct(i, we) ==
    /\ ~Constructed(i)
    /\ instances' = [instances EXCEPT ![i] = __init__(@, we)]
    /\ lastOp' = Op("__init__", i, we, None)
    /\ UNCHANGED registryVars

\* instance.workflow_execution = we
SetWorkflowExecution(i, we) ==
    /\ Constructed(i)
    /\ instances' = [instances EXCEPT ![i] = set_workflow_execution(@, we)]
    /\ lastOp' = Op("set_workflow_execution", i, we, None)
    /\ UNCHANGED registryVars

\* instance.workflow_state = state
SetWorkflowState(i, state) ==
    /\ Constructed(i)
    /\ instances' = [instances EXCEPT ![i] = set_workflow_state(@, state)]
    /\ lastOp' = Op("set_workflow_state", i, state, None)
    /\ UNCHANGED registryVars

\* instance.workflow_execution
GetWorkflowExecution(i) ==
    /\ Constructed(i)
    /\ lastOp' = Op("get_workflow_execution", i, None, workflow_execution(instances[i]))
    /\ UNCHANGED <<instances, registryVars>>

\* instance.workflow_state
GetWorkflowState(i) ==
    /\ Constructed(i)
    /\ lastOp' = Op("get_workflow_state", i, None, workflow_state(instances[i]))
    /\ UNCHANGED <<instances, registryVars>>

\* instance.workflow_result
GetWorkflowResult(i) ==
    /\ Constructed(i)
    /\ lastOp' = Op("get_workflow_result", i, None, workflow_result(instances[i]))
    /\ UNCHANGED <<instances, registryVars>>

\* The dispatcher registers the future of the started entry point:
\* instance._workflow_result = future
AssignResult(i, future) ==
    /\ Constructed(i)
    /\ instances' = [instances EXCEPT ![i] = DictSet(@, ATTR_RESULT, future)]
    /\ lastOp' = Op("assign_result", i, future, None)
    /\ UNCHANGED registryVars

\* ------------------------------------------------------------ specifications
Init ==
    /\ classes = <<>>
    /\ _workflow_signals = <<>>
    /\ _workflow_types = <<>>
    /\ signalDicts = EmptyDict
    /\ typeDicts = EmptyDict
    /\ displayName = [d \in Descriptors |-> Unbound]
    /\ resets = {}
    /\ local_signals = EmptyDict
    /\ local_workflow_types = <<>>
    /\ instances = [i \in Instances |-> EmptyDict]
    /\ lastOp = NoOp

\* class definitions: the registry builder
Next ==
    \/ DefineWorkflowDefinition
    \/ DefineSubclass

Spec == Init /\ [][Next]_vars

\* operations on instances
NextInstance ==
    \/ \E i \in Instances, we \in Executions : Construct(i, we)
    \/ \E i \in Instances, we \in Executions : SetWorkflowExecution(i, we)
    \/ \E i \in Instances, state \in States : SetWorkflowState(i, state)
    \/ \E i \in Instances : GetWorkflowExecution(i)
    \/ \E i \in Instances : GetWorkflowState(i)
    \/ \E i \in Instances : GetWorkflowResult(i)
    \/ \E i \in Instances, future \in Futures : AssignResult(i, future)

SpecInstance == Init /\ [][NextInstance]_vars

\* ===================================================================== claims
Concrete(c) == classes[c].name # BaseName

\* the entries a class body declares, as line 23-32 classify them
OwnSignals(c) == ScanSignals(classes[c].dct)
OwnTypes(c) == BuildWorkflowTypes(ScanWorkflowTypes(classes[c].dct))

\* own entries overlaid on the ancestors' entries, the more-derived class
\* winning on a key collision
RECURSIVE DeclaredSignals(_)
DeclaredSignals(c) ==
    IF c = Object THEN EmptyDict
    ELSE IF Concrete(c)
         THEN DictUpdate(DeclaredSignals(classes[c].base), OwnSignals(c))
         ELSE DeclaredSignals(classes[c].base)

RECURSIVE DeclaredTypes(_)
DeclaredTypes(c) ==
    IF c = Object THEN EmptyDict
    ELSE IF Concrete(c)
         THEN DictUpdate(DeclaredTypes(classes[c].base), OwnTypes(c))
         ELSE DeclaredTypes(classes[c].base)

\* C1: for every concrete class, the signal catalog and the entry-point
\* catalog visible on it equal the union of the entries of its own body and
\* of its ancestors, the more-derived declaration winning on a collision.
C1_CatalogIsUnionOfOwnAndAncestors ==
    \A c \in ClassIds :
        Concrete(c) => /\ SignalCatalog(c) = DeclaredSignals(c)
                       /\ TypeCatalog(c) = DeclaredTypes(c)

\* C2: a class definition leaves the signal catalog and the entry-point
\* catalog of every concrete class defined earlier exactly as they were.
C2_EarlierCatalogsUnchanged ==
    [][\A c \in ClassIds :
          Concrete(c) => /\ SignalCatalog(c)' = SignalCatalog(c)
                         /\ TypeCatalog(c)' = TypeCatalog(c)]_vars

\* C3: no two distinct concrete classes reach the same catalog object, so a
\* write through one class cannot show through another.
C3_CatalogObjectsNotShared ==
    \A c, d \in ClassIds :
        (c # d /\ Concrete(c) /\ Concrete(d)) =>
            /\ Lookup(_workflow_signals, c) # Lookup(_workflow_signals, d)
            /\ Lookup(_workflow_types, c) # Lookup(_workflow_types, d)

\* C4: the abstract base WorkflowDefinition (the first class defined) never
\* carries a non-empty signal catalog or entry-point catalog.
C4_BaseCatalogsEmpty ==
    classes # <<>> => /\ SignalCatalog(1) = EmptyDict
                      /\ TypeCatalog(1) = EmptyDict

\* Scenario A: A(W) declares run with d1; A's catalog is {d1: "run"} and a
\* signal catalog somewhere is non-empty, with the base defined.
C4_Witness ==
    /\ Len(classes) >= 2
    /\ classes[1].name = BaseName
    /\ \E c \in ClassIds :
          /\ classes[c].base = 1
          /\ Concrete(c)
          /\ TypeCatalog(c) = [d \in {"d1"} |-> "run"]
          /\ SignalCatalog(c) # EmptyDict

\* C5: every descriptor in the entry-point catalog visible on a concrete
\* class carries that class's name as its display name.
C5_DisplayNameIsCatalogClass ==
    \A c \in ClassIds :
        Concrete(c) =>
            \A d \in DOMAIN TypeCatalog(c) : displayName[d] = classes[c].name

\* C6: two concrete classes deriving directly from the abstract base hold none
\* of each other's entries, and the base's catalogs are empty.
C6_SiblingsDisjoint ==
    \A a, c \in ClassIds :
        (a # c /\ Concrete(a) /\ Concrete(c)
              /\ classes[a].base = 1 /\ classes[c].base = 1) =>
            /\ \A k \in DOMAIN OwnSignals(c) :
                  ~(k \in DOMAIN SignalCatalog(a) /\ SignalCatalog(a)[k] = OwnSignals(c)[k])
            /\ \A k \in DOMAIN OwnTypes(c) :
                  ~(k \in DOMAIN TypeCatalog(a) /\ TypeCatalog(a)[k] = OwnTypes(c)[k])
            /\ SignalCatalog(1) = EmptyDict
            /\ TypeCatalog(1) = EmptyDict

\* Scenario D: two siblings under the base, each with an entry point of its
\* own in its catalog.
C6_Witness ==
    \E a, c \in ClassIds :
        /\ a # c /\ Concrete(a) /\ Concrete(c)
        /\ classes[a].base = 1 /\ classes[c].base = 1
        /\ OwnTypes(a) # EmptyDict /\ OwnTypes(c) # EmptyDict
        /\ TypeCatalog(a) = OwnTypes(a) /\ TypeCatalog(c) = OwnTypes(c)

\* an instance whose attribute changes in this step
Changed(i, attr) == Constructed(i) /\ instances[i][attr]' # instances[i][attr]

\* C7: right after Construct(we) the three getters return we, "" and None;
\* the state stays "" until it is set and the result stays None until the
\* dispatcher assigns a future.
C7_Construct ==
    /\ [](lastOp.op = "__init__" =>
            /\ workflow_execution(instances[lastOp.inst]) = lastOp.arg
            /\ workflow_state(instances[lastOp.inst]) = ""
            /\ workflow_result(instances[lastOp.inst]) = None)
    /\ [][\A i \in Instances :
            /\ (Constructed(i) /\ workflow_state(instances[i]) = ""
                  /\ workflow_state(instances[i])' # "")
                 => (lastOp'.op = "set_workflow_state" /\ lastOp'.inst = i)
            /\ (Constructed(i) /\ workflow_result(instances[i]) = None
                  /\ workflow_result(instances[i])' # None)
                 => (lastOp'.op = "assign_result" /\ lastOp'.inst = i)]_vars

\* a fresh instance, just constructed with the identity of scenario C
C7_Witness ==
    /\ lastOp.op = "__init__"
    /\ lastOp.arg = <<"wf-1", "r-1">>
    /\ workflow_execution(instances[lastOp.inst]) = <<"wf-1", "r-1">>
    /\ workflow_state(instances[lastOp.inst]) = ""
    /\ workflow_result(instances[lastOp.inst]) = None

\* C8 as stated: nothing changes the execution identity of a constructed
\* instance.
C8_ExecutionNeverChanges ==
    [][\A i \in Instances : ~Changed(i, ATTR_EXECUTION)]_vars

\* C8 amended: the execution identity of a constructed instance changes only
\* through the workflow_execution setter, and then to the value assigned.
C8_ExecutionChangesOnlyBySetter ==
    [][\A i \in Instances :
          Changed(i, ATTR_EXECUTION) =>
              /\ lastOp'.op = "set_workflow_execution"
              /\ lastOp'.inst = i
              /\ workflow_execution(instances[i])' = lastOp'.arg]_vars

\* a state set and a result assignment have acted and the identity is still
\* the constructor's
C8_Witness ==
    /\ lastOp.op = "set_workflow_state"
    /\ lastOp.arg = "Workflow started"
    /\ workflow_execution(instances[lastOp.inst]) = <<"wf-1", "r-1">>
    /\ workflow_result(instances[lastOp.inst]) = "f1"

\* C9: the state getter returns the most recently set value ("" after
\* construction); only a set changes it, and a get returns the stored value.
C9_StateAccessors ==
    /\ [](lastOp.op = "set_workflow_state" =>
            workflow_state(instances[lastOp.inst]) = lastOp.arg)
    /\ [](lastOp.op = "get_workflow_state" =>
            lastOp.ret = instances[lastOp.inst][ATTR_STATE])
    /\ [][\A i \in Instances :
            Changed(i, ATTR_STATE) =>
                (lastOp'.op = "set_workflow_state" /\ lastOp'.inst = i)]_vars

\* the state was set twice and the getter has returned the later value
C9_Witness ==
    /\ lastOp.op = "get_workflow_state"
    /\ lastOp.ret = "Workflow completing"
    /\ workflow_state(instances[lastOp.inst]) = "Workflow completing"

\* C10: the result handle of a constructed instance changes only when the
\* dispatcher assigns a future, and the getter returns the stored reference.
C10_ResultOnlyStored ==
    /\ [][\A i \in Instances :
            Changed(i, ATTR_RESULT) =>
                /\ lastOp'.op = "assign_result"
                /\ lastOp'.inst = i
                /\ instances[i][ATTR_RESULT]' = lastOp'.arg]_vars
    /\ [](lastOp.op = "get_workflow_result" =>
            lastOp.ret = instances[lastOp.inst][ATTR_RESULT])

\* a future was assigned, the identity was set again afterwards, and the
\* handle is still that future
C10_Witness ==
    /\ lastOp.op = "set_workflow_execution"
    /\ instances[lastOp.inst][ATTR_RESULT] = "f2"

\* the class whose definition ran last
Latest == Len(classes)
SeqRange(q) == {q[i] : i \in 1..Len(q)}
\* the members a class inherits: those of the bodies of its ancestors
InheritedMembers(c) == SeqRange(MembersWithInherited(classes, classes[c].base))
OwnMembers(c) == SeqRange(classes[c].dct)
\* descriptors in the local `_workflow_types` list of the latest definition
LocalDescriptors == {local_workflow_types[i][1] : i \in 1..Len(local_workflow_types)}
LocalHandlers == {local_signals[k] : k \in DOMAIN local_signals}

\* C11: the construction of a class classifies the members of its own body
\* only: a member it merely inherits is no handler of the local signal map,
\* its descriptor is not in the local entry-point list and is not rebound.
C11_OnlyOwnBodyClassified ==
    classes # <<>> =>
        /\ \A m \in InheritedMembers(Latest) :
              /\ m \notin LocalHandlers
              /\ WorkflowTypeOf(m) \notin LocalDescriptors
              /\ WorkflowTypeOf(m) \notin resets
        /\ LocalHandlers \subseteq OwnMembers(Latest)
        /\ LocalDescriptors \cup resets
              \subseteq {WorkflowTypeOf(m) : m \in OwnMembers(Latest)}

\* a subclass of a class that declares a signal handler and an entry point
\* has just been constructed with an entry point of its own
C11_Witness ==
    /\ Len(classes) >= 3
    /\ Concrete(Latest)
    /\ {1, 3} \subseteq InheritedMembers(Latest)
    /\ OwnMembers(Latest) = {4}
    /\ LocalDescriptors = {"d2"}
    /\ resets = {"d2"}
    /\ local_signals = EmptyDict

\* a member the scan takes as a workflow entry point (lines 30-32): its options
\* carry workflow_type and no signal_type
IsEntryPoint(m) ==
    /\ HasFunc(m) /\ HasSwfOptions(m)
    /\ SignalTypeName(m) = None
    /\ WorkflowTypeOf(m) # None

\* C12 as stated: in the construction of any class, every entry point of the
\* body is put in the local entry-point list and its descriptor is rebound to
\* the name of the class, the class named WorkflowDefinition included.
C12_RebindForEveryClass ==
    classes # <<>> =>
        \A m \in OwnMembers(Latest) :
            IsEntryPoint(m) =>
                /\ WorkflowTypeOf(m) \in LocalDescriptors
                /\ WorkflowTypeOf(m) \in resets
                /\ displayName[WorkflowTypeOf(m)] = classes[Latest].name

\* C12 amended: every entry point of the body is put in the local entry-point
\* list; its descriptor is rebound to the name of the class when that name is
\* not WorkflowDefinition, and is not rebound when it is.
C12_RebindAfterBaseCheck ==
    classes # <<>> =>
        \A m \in OwnMembers(Latest) :
            IsEntryPoint(m) =>
                /\ WorkflowTypeOf(m) \in LocalDescriptors
                /\ IF classes[Latest].name = BaseName
                   THEN WorkflowTypeOf(m) \notin resets
                   ELSE /\ WorkflowTypeOf(m) \in resets
                        /\ displayName[WorkflowTypeOf(m)] = classes[Latest].name

\* a class called "B" with the entry points run (d1) and start (d2) has just
\* been constructed and both descriptors carry its name
C12_Witness ==
    /\ classes # <<>>
    /\ classes[Latest].name = "B"
    /\ OwnMembers(Latest) = {3, 4}
    /\ resets = {"d1", "d2"}
    /\ displayName["d1"] = "B" /\ displayName["d2"] = "B"

\* m is declared before n in the text of a class body
DeclaredBefore(m, n) == m < n

\* the signal handlers of a body that share their signal name with another
\* handler of the same body
Duplicated(c) ==
    {m \in OwnMembers(c) : \E n \in OwnMembers(c) : n # m /\ Collide(m, n)}

\* position of a member in the iteration over dct
Position(c, m) == CHOOSE i \in 1..Len(classes[c].dct) : classes[c].dct[i] = m

\* C13 as stated: when a body declares two handlers for one signal name, the
\* catalog of the class just constructed maps the name to the handler that
\* is declared later.
C13_LaterDeclaredWins ==
    (classes # <<>> /\ Concrete(Latest)) =>
        \A m \in Duplicated(Latest) :
            (\A n \in Duplicated(Latest) :
                Collide(m, n) => (n = m \/ DeclaredBefore(n, m)))
            => /\ SignalTypeName(m) \in DOMAIN SignalCatalog(Latest)
               /\ SignalCatalog(Latest)[SignalTypeName(m)] = m

\* C13 amended: the catalog of the class just constructed maps the name to
\* the handler that the iteration over dct yields last.
C13_LastIteratedWins ==
    (classes # <<>> /\ Concrete(Latest)) =>
        \A m \in Duplicated(Latest) :
            (\A n \in Duplicated(Latest) :
                Collide(m, n) => Position(Latest, n) <= Position(Latest, m))
            => /\ SignalTypeName(m) \in DOMAIN SignalCatalog(Latest)
               /\ SignalCatalog(Latest)[SignalTypeName(m)] = m

\* a body with two "ping" handlers, iterated in the reverse of declaration
\* order: the construction completed and the earlier-declared handler is the
\* one in the catalog
C13_Witness ==
    /\ classes # <<>>
    /\ Concrete(Latest)
    /\ classes[Latest].dct = <<2, 1>>
    /\ SignalCatalog(Latest) = [k \in {"ping"} |-> 1]

\* the members getattr finds on a class: its own and the inherited ones
VisibleMembers(c) == OwnMembers(c) \cup InheritedMembers(c)

\* C14: for every concrete class, each method name in the entry-point catalog
\* visible on it names a method the class declares or inherits, and each
\* handler in its signal catalog was declared by the class or an ancestor.
C14_CatalogEntriesResolveOnClass ==
    \A c \in ClassIds :
        Concrete(c) =>
            /\ \A k \in DOMAIN SignalCatalog(c) :
                  SignalCatalog(c)[k] \in VisibleMembers(c)
            /\ \A d \in DOMAIN TypeCatalog(c) :
                  \E m \in VisibleMembers(c) : FuncName(m) = TypeCatalog(c)[d]

\* C15: the construction of a class named WorkflowDefinition, whatever its
\* base, attaches no catalog attribute, leaves every catalog dict and every
\* display name as it was and rebinds nothing; the construction of a class
\* with another name leaves the class with both catalogs, which hold the
\* entries of its body.
C15_BaseRecognisedByName ==
    [][Len(classes') = Len(classes) + 1 =>
        LET c == Len(classes')
        IN  IF classes'[c].name = BaseName
            THEN /\ signalDicts' = signalDicts
                 /\ typeDicts' = typeDicts
                 /\ displayName' = displayName
                 /\ resets' = {}
                 /\ _workflow_signals'[c] = NoAttr
                 /\ _workflow_types'[c] = NoAttr
                 /\ \A x \in ClassIds :
                       /\ _workflow_signals'[x] = _workflow_signals[x]
                       /\ _workflow_types'[x] = _workflow_types[x]
            ELSE LET rs == LookupIn(_workflow_signals', classes', c)
                     rt == LookupIn(_workflow_types', classes', c)
                 IN  /\ rs # NoAttr
                     /\ rt # NoAttr
                     /\ \A k \in DOMAIN local_signals' :
                           /\ k \in DOMAIN signalDicts'[rs]
                           /\ signalDicts'[rs][k] = local_signals'[k]
                     /\ \A i \in 1..Len(local_workflow_types') :
                           /\ local_workflow_types'[i][1] \in DOMAIN typeDicts'[rt]
                           /\ typeDicts'[rt][local_workflow_types'[i][1]]
                                 = local_workflow_types'[i][2]]_vars

\* a class named WorkflowDefinition was just derived from a concrete class
\* that has a "ping" handler; its own "ping" handler and its entry point
\* start (d2) are in no catalog and d2 was not rebound
C15_Witness ==
    /\ Len(classes) >= 3
    /\ classes[Latest].name = BaseName
    /\ classes[Latest].base = 2
    /\ Concrete(2)
    /\ OwnMembers(Latest) = {2, 4}
    /\ SignalCatalog(Latest) = [k \in {"ping"} |-> 1]
    /\ TypeCatalog(Latest) = EmptyDict
    /\ resets = {}
    /\ displayName["d2"] = Unbound

\* a member whose options carry both signal_type and workflow_type
IsDualTagged(m) ==
    /\ HasFunc(m) /\ HasSwfOptions(m)
    /\ SignalTypeName(m) # None
    /\ WorkflowTypeOf(m) # None

\* C16: no member of the body just scanned is in both local maps; a member
\* tagged with both signal_type and workflow_type is in the local signal map
\* only, its descriptor is in no entry-point catalog and is never rebound; a
\* member without a wrapped function with options is in neither local map.
C16_AtMostOneCatalog ==
    classes # <<>> =>
        \A m \in OwnMembers(Latest) :
            /\ ~(m \in LocalHandlers /\ WorkflowTypeOf(m) \in LocalDescriptors)
            /\ IsDualTagged(m) =>
                  /\ SignalTypeName(m) \in DOMAIN local_signals
                  /\ WorkflowTypeOf(m) \notin LocalDescriptors
                  /\ WorkflowTypeOf(m) \notin resets
                  /\ \A r \in DOMAIN typeDicts :
                        WorkflowTypeOf(m) \notin DOMAIN typeDicts[r]
            /\ ~(HasFunc(m) /\ HasSwfOptions(m)) =>
                  /\ m \notin LocalHandlers
                  /\ \A i \in 1..Len(local_workflow_types) :
                        local_workflow_types[i][2] # FuncName(m)

\* a concrete class whose body holds the member tagged both ways and the
\* untagged helper has just been constructed: "pong" is its only catalog entry
C16_Witness ==
    /\ classes # <<>>
    /\ Concrete(Latest)
    /\ OwnMembers(Latest) = {5, 6}
    /\ local_signals = [k \in {"pong"} |-> 5]
    /\ local_workflow_types = <<>>
    /\ SignalCatalog(Latest) = [k \in {"pong"} |-> 5]
    /\ TypeCatalog(Latest) = EmptyDict
    /\ resets = {}

====
